---- MODULE Spec2Model ----
(***************************************************************************)
(* A model of app.py: the credential table (init_db, register_user,        *)
(* login_user), the text pipeline (clean_text, predict_sentiment), the     *)
(* remote fetch (get_tweets) and the Streamlit controller (main,           *)
(* run_sentiment_analysis).                                                *)
(*                                                                         *)
(* Strings that are only compared (user names, passwords, labels) are TLA+ *)
(* strings; strings that are taken apart (the text handed to clean_text)   *)
(* are sequences of one-character strings.                                 *)
(***************************************************************************)
EXTENDS Integers, Sequences, FiniteSets, TLC

VARIABLES
    \* ---- text pipeline (SpecText)
    stops,       \* stop_words: the stopword list the installed corpus gave
    text,        \* the raw text handed to clean_text / predict_sentiment
    cleaned,     \* clean_text(text)
    recleaned,   \* clean_text(clean_text(text))
    label,       \* what predict_sentiment returned
    prediction,  \* what model.predict(vector)[0] was in that call
    tdone,       \* which of the calls have been made on this text
    \* ---- credential store (SpecApp, SpecConc)
    db,          \* users.db: whether the users table exists, and its rows
    \* ---- concurrent register_user calls (SpecConc)
    lock,        \* the connection holding the database's write lock (0: none)
    pc,          \* where each call of register_user stands
    args,        \* each call's (username, name, password)
    pending,     \* each connection's inserted but uncommitted rows
    result,      \* what each call returned
    \* ---- deployment (SpecApp, SpecFetch)
    scraperAvailable,  \* SCRAPER_AVAILABLE: whether ntscraper could be imported
    artifacts,   \* the model names whose two pickle files are present
    \* ---- remote fetch called on its own (SpecFetch)
    fcall,       \* the last call of get_tweets: its inputs and what it gave
    \* ---- controller (SpecApp)
    w,           \* the widgets' values, as the browser session holds them
    rendered,    \* the widgets the last run of main put on the page
    out,         \* what the last run of main did (dup is history: whether the
                 \* username it registered had been registered before)
    succeeded,   \* history: the rows register_user returned True for
    first        \* history: per username, the first row it returned True for

textVars == <<stops, text, cleaned, recleaned, label, prediction, tdone>>

concVars == <<lock, pc, args, pending, result>>

deployVars == <<scraperAvailable, artifacts>>

appVars == <<w, rendered, out, succeeded, first>>

vars == <<stops, text, cleaned, recleaned, label, prediction, tdone, db,
          lock, pc, args, pending, result,
          scraperAvailable, artifacts, fcall, w, rendered, out, succeeded, first>>

(***************************************************************************)
(* Bounds of the model.                                                    *)
(***************************************************************************)
MaxLen == 4      \* longest enumerated input text
MaxLabel == 2    \* classifier outputs range over -1 .. MaxLabel
NumProcs == 2    \* concurrent calls of register_user
MaxTweets == 3   \* most posts one remote fetch returns

(***************************************************************************)
(* DATABASE SETUP                                                          *)
(***************************************************************************)
\* The values the forms submit.  A text input is the empty string until the
\* user types; comparison of TEXT columns is SQLite's BINARY collation, that
\* is, equality of strings.
Usernames == {"", "alice", "Alice"}
Names == {"", "Bob"}
Passwords == {"", "pw1", "PW1"}

Row(u, n, p) == [username |-> u, name |-> n, password |-> p]

NoDatabase == [exists |-> FALSE, rows |-> {}]
EmptyTable == [exists |-> TRUE, rows |-> {}]

\* Mutant: the table dropped and created anew on every call.
init_db_recreate(d) == EmptyTable

\* CREATE TABLE IF NOT EXISTS users (username TEXT PRIMARY KEY, name, password)
init_db(d) == IF d.exists THEN d ELSE EmptyTable

\* Mutant: the username column declared without PRIMARY KEY.
PrimaryKeyViolated_unconstrained(rows, u) == FALSE

\* The PRIMARY KEY constraint on username, as INSERT checks it.
PrimaryKeyViolated(rows, u) == \E r \in rows : r.username = u

\* register_user(username, name, password) run alone on database d: the new
\* database, and what the call returned or raised.
register_user(d, u, n, p) ==
    IF ~d.exists
    THEN [db |-> d, ok |-> FALSE, exc |-> "OperationalError"]
    ELSE IF PrimaryKeyViolated(d.rows, u)
         THEN [db |-> d, ok |-> FALSE, exc |-> "none"]
         ELSE [db |-> [d EXCEPT !.rows = @ \cup {Row(u, n, p)}],
               ok |-> TRUE, exc |-> "none"]

\* Mutant: the password left out of the WHERE clause.
Matches_username_only(r, u, p) == r.username = u

\* WHERE username = ? AND password = ?
Matches(r, u, p) == r.username = u /\ r.password = p

\* c.fetchone(): the first row of the result, or None (the empty sequence).
fetchone(rows) == IF rows = {} THEN <<>> ELSE <<CHOOSE r \in rows : TRUE>>

\* login_user(username, password) on database d.
login_user(d, u, p) ==
    IF ~d.exists
    THEN [user |-> <<>>, exc |-> "OperationalError"]
    ELSE [user |-> fetchone({r \in d.rows : Matches(r, u, p)}), exc |-> "none"]

(***************************************************************************)
(* TEXT PREPROCESSING                                                      *)
(***************************************************************************)
LowerSeq == <<"a","b","c","d","e","f","g","h","i","j","k","l","m",
              "n","o","p","q","r","s","t","u","v","w","x","y","z">>
UpperSeq == <<"A","B","C","D","E","F","G","H","I","J","K","L","M",
              "N","O","P","Q","R","S","T","U","V","W","X","Y","Z">>

\* The character class a-zA-Z of the regular expression.
Letters == {LowerSeq[i] : i \in DOMAIN LowerSeq} \cup {UpperSeq[i] : i \in DOMAIN UpperSeq}

\* What str.split() with no argument splits on.
Whitespace == {" ", "\t", "\n"}

\* The characters the enumerated inputs are built from: lower- and upper-case
\* letters, a digit, a punctuation mark and a blank.
Alphabet == {"a", "A", "t", "1", "!", " "}

\* nltk's English stopword list, as far as it matters to the model: its
\* entries of one or two letters and a few of its commonest longer words.
\* (Entries with an apostrophe, such as "don't", can never equal a token.)
nltk_stopwords ==
    { <<"i">>, <<"a">>, <<"s">>, <<"t">>, <<"d">>, <<"m">>, <<"o">>, <<"y">>,
      <<"m","e">>, <<"m","y">>, <<"w","e">>, <<"h","e">>, <<"i","t">>,
      <<"a","m">>, <<"i","s">>, <<"b","e">>, <<"d","o">>, <<"a","n">>,
      <<"i","f">>, <<"o","r">>, <<"a","s">>, <<"o","f">>, <<"a","t">>,
      <<"b","y">>, <<"t","o">>, <<"u","p">>, <<"i","n">>, <<"o","n">>,
      <<"n","o">>, <<"s","o">>, <<"l","l">>, <<"r","e">>, <<"v","e">>,
      <<"m","a">>,
      <<"t","h","e">>, <<"a","n","d">>, <<"b","u","t">>, <<"n","o","t">>,
      <<"t","h","a","t">>, <<"t","h","i","s">>, <<"w","i","t","h">> }

\* The lists stop_words may hold: the corpus's, an empty one, and one with
\* other entries (a capitalised one among them).
StopwordLists ==
    { nltk_stopwords, {}, {<<"t", "a">>, <<"a", "a", "t">>, <<"A">>, <<"c", "a", "t">>} }

\* re.sub('[^a-zA-Z]', ' ', text)
SubNonLetters(s) == [i \in 1..Len(s) |-> IF s[i] \in Letters THEN s[i] ELSE " "]

\* One character of str.lower()
LowerChar(c) ==
    IF \E i \in DOMAIN UpperSeq : UpperSeq[i] = c
    THEN LowerSeq[CHOOSE i \in DOMAIN UpperSeq : UpperSeq[i] = c]
    ELSE c

\* Mutant: the call of lower() left out.
Lower_omitted(s) == s

\* text.lower()
Lower(s) == [i \in 1..Len(s) |-> LowerChar(s[i])]

\* text.split(): the maximal runs of non-whitespace characters, in order.
RECURSIVE SplitFrom(_, _, _)
SplitFrom(s, i, word) ==
    IF i > Len(s)
    THEN IF word = <<>> THEN <<>> ELSE <<word>>
    ELSE IF s[i] \in Whitespace
         THEN IF word = <<>> THEN SplitFrom(s, i + 1, <<>>)
                             ELSE <<word>> \o SplitFrom(s, i + 1, <<>>)
         ELSE SplitFrom(s, i + 1, Append(word, s[i]))

Split(s) == SplitFrom(s, 1, <<>>)

\* [word for word in text if word not in stop_words]
RemoveStopWords(words, stop) ==
    LET NotStopWord(word) == word \notin stop
    IN  SelectSeq(words, NotStopWord)

\* ' '.join(words)
RECURSIVE Join(_)
Join(words) ==
    IF words = <<>> THEN <<>>
    ELSE IF Len(words) = 1 THEN words[1]
    ELSE words[1] \o <<" ">> \o Join(Tail(words))

\* Mutant: the stopwords removed before lower-casing instead of after.
clean_text_filter_first(s, stop) ==
    LET words == RemoveStopWords(Split(SubNonLetters(s)), stop)
    IN  Join([i \in DOMAIN words |-> Lower(words[i])])

\* clean_text(text), with `stop` the value of the global stop_words.
clean_text(s, stop) == Join(RemoveStopWords(Split(Lower(SubNonLetters(s))), stop))

(***************************************************************************)
(* SENTIMENT PREDICTION                                                    *)
(***************************************************************************)
\* The values model.predict(vector)[0] may take: the classifier is a pickled
\* artifact, so its label set is not fixed by the program.
ClassifierOutputs == (0..MaxLabel) \cup {-1}

\* Mutant: any truthy output taken for Positive.
LabelOf_truthy(p) == IF p # 0 THEN "Positive" ELSE "Negative"

\* "Positive" if prediction == 1 else "Negative"
LabelOf(p) == IF p = 1 THEN "Positive" ELSE "Negative"

\* predict_sentiment(text, model, vectorizer), with the classifier answering p
\* on the vector of the cleaned text.
predict_sentiment(s, stop, p) == [cleaned |-> clean_text(s, stop), label |-> LabelOf(p)]

(***************************************************************************)
(* ML MODELS LOADER                                                        *)
(***************************************************************************)
ModelNames == {"logistic", "svm", "naivebayes"}

\* load_model(model_name): open() raises when a pickle file is missing.
load_model(m, arts) == IF m \in arts THEN "none" ELSE "FileNotFoundError"

(***************************************************************************)
(* TWITTER SCRAPER                                                         *)
(***************************************************************************)
TweetTexts == {<<"a", "t">>, <<"T", "a", "!">>, <<"t", "t", " ", "a">>}

RECURSIVE TweetListsUpTo(_)
TweetListsUpTo(n) ==
    IF n = 0 THEN {<<>>}
    ELSE LET shorter == TweetListsUpTo(n - 1)
         IN  shorter \cup {Append(l, [text |-> t]) : l \in shorter, t \in TweetTexts}

\* What Nitter() and scraper.get_tweets(...) may do: return a dictionary with
\* a list under 'tweets', return one without that key, or raise (the network
\* is down, no instance answers).
RemoteOutcomes ==
    {[kind |-> "tweets", tweets |-> l] : l \in TweetListsUpTo(MaxTweets)}
    \cup {[kind |-> "no_key", tweets |-> <<>>], [kind |-> "raises", tweets |-> <<>>]}

NoRemote == [kind |-> "tweets", tweets |-> <<>>]

\* get_tweets(username) when the scraper does `remote`.
get_tweets(username, available, remote) ==
    IF ~available
    THEN [tweets |-> <<>>, exc |-> "none"]
    ELSE IF remote.kind = "raises"
         THEN [tweets |-> <<>>, exc |-> "Exception"]
         ELSE [tweets |-> [i \in DOMAIN remote.tweets |-> remote.tweets[i].text],
               exc |-> "none"]

(***************************************************************************)
(* STREAMLIT APP                                                           *)
(*                                                                         *)
(* Streamlit runs main from its first line on every interaction with a     *)
(* widget.  A widget's value lives in the browser session as long as the   *)
(* widget is put on the page; a button reads True only in the run its      *)
(* click triggered.  The program keeps nothing in st.session_state.        *)
(***************************************************************************)
Menu == {"Login", "Register"}
Options == {"Input text", "Analyze tweets from username"}
TextSamples == {<<>>, <<"A", " ", "t", "a", "t", "!">>}
TwitterUsers == {"", "nasa"}
Buttons == {"Register", "Login", "Analyze", "Fetch and Analyze"}

Defaults ==
    [choice |-> "Login", username |-> "", name |-> "", password |-> "",
     model_choice |-> "logistic", option |-> "Input text",
     user_text |-> <<>>, twitter_user |-> ""]

\* The values a widget offers.
Choices(f) ==
    CASE f = "choice" -> Menu
      [] f = "username" -> Usernames
      [] f = "name" -> Names
      [] f = "password" -> Passwords
      [] f = "model_choice" -> ModelNames
      [] f = "option" -> Options
      [] f = "user_text" -> TextSamples
      [] f = "twitter_user" -> TwitterUsers

SelectWidgets == {"choice", "model_choice", "option"}
TextWidgets == {"username", "name", "password", "user_text", "twitter_user"}

Range(f) == {f[i] : i \in DOMAIN f}

Page(widgets, messages, invoked, shown, raised) ==
    [rendered |-> widgets, msgs |-> messages, calls |-> invoked,
     results |-> shown, exc |-> raised]

\* run_sentiment_analysis(), with `clicked` the button whose click triggered
\* the run, `remote` what the scraper does and preds[i] the classifier's
\* output on the i-th sample.
run_sentiment_analysis(v, clicked, available, arts, remote, preds) ==
    LET loaded == load_model(v.model_choice, arts)
    IN
    IF loaded # "none"
    THEN Page({"model_choice"}, {}, <<"load_model">>, <<>>, loaded)
    ELSE IF v.option = "Input text"
    THEN IF clicked = "Analyze"
         THEN Page({"model_choice", "option", "user_text", "Analyze"},
                   {"sentiment"}, <<"load_model", "predict_sentiment">>,
                   <<[text |-> v.user_text,
                      label |-> predict_sentiment(v.user_text, nltk_stopwords, preds[1]).label]>>,
                   "none")
         ELSE Page({"model_choice", "option", "user_text", "Analyze"},
                   {}, <<"load_model">>, <<>>, "none")
    ELSE IF ~available
    THEN Page({"model_choice", "option"}, {"scraper unavailable"},
              <<"load_model">>, <<>>, "none")
    ELSE IF clicked = "Fetch and Analyze"
    THEN LET got == get_tweets(v.twitter_user, available, remote)
         IN  IF got.exc # "none"
             THEN Page({"model_choice", "option", "twitter_user", "Fetch and Analyze"},
                       {}, <<"load_model", "get_tweets">>, <<>>, got.exc)
             ELSE IF got.tweets # <<>>
             THEN Page({"model_choice", "option", "twitter_user", "Fetch and Analyze"},
                       {"tweet"},
                       <<"load_model", "get_tweets">>
                           \o [i \in DOMAIN got.tweets |-> "predict_sentiment"],
                       [i \in DOMAIN got.tweets |->
                           [text |-> got.tweets[i],
                            label |-> predict_sentiment(got.tweets[i], nltk_stopwords, preds[i]).label]],
                       "none")
             ELSE Page({"model_choice", "option", "twitter_user", "Fetch and Analyze"},
                       {"no tweets"}, <<"load_model", "get_tweets">>, <<>>, "none")
    ELSE Page({"model_choice", "option", "twitter_user", "Fetch and Analyze"},
              {}, <<"load_model">>, <<>>, "none")

\* Mutant: the analysis run whatever login_user returned.
LoggedIn_unchecked(user) == TRUE

\* if user:
LoggedIn(user) == user # <<>>

RegisterForm == {"choice", "username", "name", "password", "Register"}
LoginForm == {"choice", "username", "password", "Login"}

\* One run of main() on database d with the widget values v.
main(v, clicked, d, available, arts, remote, preds) ==
    LET d1 == init_db(d)
        quiet == [db |-> d1, user |-> <<>>, reg |-> "none"]
    IN
    IF v.choice = "Register"
    THEN IF clicked = "Register"
         THEN LET r == register_user(d1, v.username, v.name, v.password)
              IN  [db |-> r.db, user |-> <<>>,
                   reg |-> IF r.ok THEN "registered" ELSE "exists",
                   page |-> Page(RegisterForm,
                                 {IF r.ok THEN "registered" ELSE "exists"},
                                 <<>>, <<>>, r.exc)]
         ELSE [db |-> d1, user |-> <<>>, reg |-> "none",
               page |-> Page(RegisterForm, {}, <<>>, <<>>, "none")]
    ELSE IF clicked = "Login"
         THEN LET l == login_user(d1, v.username, v.password)
              IN  IF LoggedIn(l.user)
                  THEN LET a == run_sentiment_analysis(v, clicked, available,
                                                       arts, remote, preds)
                       IN  [db |-> d1, user |-> l.user, reg |-> "none",
                            page |-> Page(LoginForm \cup a.rendered,
                                          {"welcome"} \cup a.msgs,
                                          a.calls, a.results, a.exc)]
                  ELSE [db |-> d1, user |-> l.user, reg |-> "none",
                        page |-> Page(LoginForm, {"invalid"}, <<>>, <<>>, l.exc)]
         ELSE [db |-> d1, user |-> <<>>, reg |-> "none",
               page |-> Page(LoginForm, {}, <<>>, <<>>, "none")]

(***************************************************************************)
(* SpecApp: a browser session on the deployed app.  Every action is one    *)
(* interaction and the run of main it triggers.                            *)
(***************************************************************************)
\* The variables of the parts a specification leaves alone.
TextIdle ==
    /\ stops = {}
    /\ text = <<>>
    /\ cleaned = <<>>
    /\ recleaned = <<>>
    /\ label = "none"
    /\ prediction = 0
    /\ tdone = {}

ConcIdle ==
    /\ lock = 0
    /\ pc = <<>>
    /\ args = <<>>
    /\ pending = <<>>
    /\ result = <<>>

DeployIdle ==
    /\ scraperAvailable = FALSE
    /\ artifacts = {}

FetchIdle == fcall = [made |-> FALSE]

NoRun ==
    [clicked |-> "none", user |-> <<>>, reg |-> "none", dup |-> FALSE,
     msgs |-> {}, calls |-> <<>>, results |-> <<>>, exc |-> "none"]

AppIdle ==
    /\ w = Defaults
    /\ rendered = {}
    /\ out = NoRun
    /\ succeeded = {}
    /\ first = [u \in Usernames |-> <<>>]

InitApp ==
    /\ TextIdle
    /\ ConcIdle
    /\ FetchIdle
    /\ AppIdle
    /\ db = NoDatabase
    /\ scraperAvailable \in BOOLEAN
    /\ artifacts \in {ModelNames, {}}

\* The run of main triggered by an interaction that left the widgets at v and,
\* if it was a click, clicked the button `clicked`.
Rerun(v, clicked, remote, preds) ==
    LET run == main(v, clicked, db, scraperAvailable, artifacts, remote, preds)
        row == Row(v.username, v.name, v.password)
    IN
    /\ db' = run.db
    /\ rendered' = run.page.rendered
    /\ w' = [f \in DOMAIN v |-> IF f \in run.page.rendered THEN v[f] ELSE Defaults[f]]
    /\ out' = [clicked |-> clicked, user |-> run.user, reg |-> run.reg,
               dup |-> clicked = "Register" /\ first[v.username] # <<>>,
               msgs |-> run.page.msgs, calls |-> run.page.calls,
               results |-> run.page.results, exc |-> run.page.exc]
    /\ succeeded' = IF run.reg = "registered" THEN succeeded \cup {row} ELSE succeeded
    /\ first' = IF run.reg = "registered" /\ first[v.username] = <<>>
                THEN [first EXCEPT ![v.username] = <<row>>]
                ELSE first
    /\ UNCHANGED <<textVars, concVars, deployVars, fcall>>

NoPreds == [i \in 1..1 |-> 0]

\* The page is opened (or reloaded): a new session with every widget at its
\* default.
OpenPage == Rerun(Defaults, "none", NoRemote, NoPreds)

\* The user picks another entry of a select box or radio group on the page.
Select ==
    \E f \in SelectWidgets \cap rendered :
        \E x \in Choices(f) \ {w[f]} :
            Rerun([w EXCEPT ![f] = x], "none", NoRemote, NoPreds)

\* The user changes a text input on the page.
EditText ==
    \E f \in TextWidgets \cap rendered :
        \E x \in Choices(f) \ {w[f]} :
            Rerun([w EXCEPT ![f] = x], "none", NoRemote, NoPreds)

\* The user clicks a button on the page.
Click ==
    \E b \in Buttons \cap rendered :
        \E remote \in IF b = "Fetch and Analyze" THEN RemoteOutcomes ELSE {NoRemote} :
            \E preds \in CASE b = "Analyze" -> [1..1 -> ClassifierOutputs]
                           [] b = "Fetch and Analyze" ->
                                  [1..Len(remote.tweets) -> ClassifierOutputs]
                           [] OTHER -> {NoPreds} :
                Rerun(w, b, remote, preds)

NextApp == OpenPage \/ Select \/ EditText \/ Click

SpecApp == InitApp /\ [][NextApp]_vars

(***************************************************************************)
(* SpecFetch: get_tweets called on its own.                                *)
(***************************************************************************)
InitFetch ==
    /\ TextIdle
    /\ ConcIdle
    /\ AppIdle
    /\ FetchIdle
    /\ db = NoDatabase
    /\ artifacts = {}
    /\ scraperAvailable \in BOOLEAN

GetTweets ==
    /\ \E u \in TwitterUsers, remote \in RemoteOutcomes :
          fcall' = [made |-> TRUE, username |-> u, remote |-> remote,
                    ret |-> get_tweets(u, scraperAvailable, remote)]
    /\ UNCHANGED <<db, textVars, concVars, deployVars, appVars>>

NextFetch == GetTweets

SpecFetch == InitFetch /\ [][NextFetch]_vars

(***************************************************************************)
(* SpecText: clean_text and predict_sentiment applied to bounded inputs.   *)
(***************************************************************************)
RECURSIVE StringsUpTo(_)
StringsUpTo(n) ==
    IF n = 0 THEN {<<>>}
    ELSE LET shorter == StringsUpTo(n - 1)
         IN  shorter \cup {Append(s, c) : s \in shorter, c \in Alphabet}

HelloWorld == <<"H","e","l","l","o"," ","W","o","r","l","d","!"," ","1","2","3">>

TheCat == <<"T","h","e"," ","c","a","t","\t","A","N","D","\n","i","t">>

Inputs == StringsUpTo(MaxLen) \cup {HelloWorld, TheCat}

InitText ==
    /\ db = NoDatabase
    /\ ConcIdle
    /\ DeployIdle
    /\ FetchIdle
    /\ AppIdle
    /\ stops \in StopwordLists
    /\ text \in Inputs
    /\ cleaned = <<>>
    /\ recleaned = <<>>
    /\ label = "none"
    /\ prediction = 0
    /\ tdone = {}

CleanText ==
    /\ "clean" \notin tdone
    /\ cleaned' = clean_text(text, stops)
    /\ tdone' = tdone \cup {"clean"}
    /\ UNCHANGED <<stops, text, recleaned, label, prediction>>
    /\ UNCHANGED <<db, concVars, deployVars, fcall, appVars>>

CleanAgain ==
    /\ "clean" \in tdone
    /\ "reclean" \notin tdone
    /\ recleaned' = clean_text(cleaned, stops)
    /\ tdone' = tdone \cup {"reclean"}
    /\ UNCHANGED <<stops, text, cleaned, label, prediction>>
    /\ UNCHANGED <<db, concVars, deployVars, fcall, appVars>>

PredictSentiment ==
    /\ "predict" \notin tdone
    /\ \E p \in ClassifierOutputs :
          /\ prediction' = p
          /\ label' = predict_sentiment(text, stops, p).label
    /\ tdone' = tdone \cup {"predict"}
    /\ UNCHANGED <<stops, text, cleaned, recleaned>>
    /\ UNCHANGED <<db, concVars, deployVars, fcall, appVars>>

NextText == CleanText \/ CleanAgain \/ PredictSentiment

SpecText == InitText /\ [][NextText]_vars

(***************************************************************************)
(* Claims about the text pipeline (checked under SpecText).                *)
(***************************************************************************)
LowerLetters == {LowerSeq[i] : i \in DOMAIN LowerSeq}

\* A maximal run of letters of x starts at i.
RunStart(x, i) ==
    /\ i \in 1..Len(x)
    /\ x[i] \in Letters
    /\ (i = 1 \/ x[i - 1] \notin Letters)

\* Where the maximal run of letters starting at i ends.
RunEnd(x, i) ==
    CHOOSE j \in i..Len(x) :
        /\ \A k \in i..j : x[k] \in Letters
        /\ (j = Len(x) \/ x[j + 1] \notin Letters)

\* The run starting at i, lower-cased.
RunAt(x, i) == [k \in 1..(RunEnd(x, i) - i + 1) |-> LowerChar(x[i + k - 1])]

\* The starts of the runs that are not stopwords.
KeptStarts(x) == {i \in 1..Len(x) : RunStart(x, i) /\ RunAt(x, i) \notin stops}

Least(S) == CHOOSE i \in S : \A j \in S : i <= j

RECURSIVE JoinRuns(_, _)
JoinRuns(x, S) ==
    IF S = {} THEN <<>>
    ELSE LET i == Least(S)
             rest == S \ {i}
         IN  IF rest = {} THEN RunAt(x, i)
             ELSE RunAt(x, i) \o <<" ">> \o JoinRuns(x, rest)

\* c is a maximal run of non-blank characters of s from i to j.
IsToken(s, i, j) ==
    /\ i <= j
    /\ \A k \in i..j : s[k] # " "
    /\ (i = 1 \/ s[i - 1] = " ")
    /\ (j = Len(s) \/ s[j + 1] = " ")

WellFormed(c) ==
    /\ \A i \in 1..Len(c) : c[i] \in LowerLetters \cup {" "}
    /\ (c # <<>> => c[1] # " " /\ c[Len(c)] # " ")
    /\ \A i \in 1..(Len(c) - 1) : ~(c[i] = " " /\ c[i + 1] = " ")
    /\ \A i \in 1..Len(c) : \A j \in i..Len(c) :
          IsToken(c, i, j) => SubSeq(c, i, j) \notin stops

\* C8: clean_text returns the maximal runs of letters of its input, lower-cased,
\* in order, without the runs that are stopwords, joined by single blanks; the
\* result holds only lower-case letters and single interior blanks and no
\* stopword token, is empty for an empty or all-stopword input, and
\* clean_text("Hello World! 123") = "hello world".
CleanIsJoinedRuns ==
    "clean" \in tdone =>
        /\ cleaned = JoinRuns(text, KeptStarts(text))
        /\ WellFormed(cleaned)
        /\ (KeptStarts(text) = {} => cleaned = <<>>)
        /\ (text = <<>> => cleaned = <<>>)
        /\ (text = HelloWorld =>
               cleaned = <<"h","e","l","l","o"," ","w","o","r","l","d">>)

\* A text with upper case, a tab, a newline and stopwords has been cleaned.
CleanedTheCat ==
    /\ "clean" \in tdone
    /\ stops = nltk_stopwords
    /\ text = TheCat
    /\ cleaned = <<"c","a","t">>

\* C7: clean_text is idempotent: clean_text(clean_text(x)) = clean_text(x).
CleanIdempotent == "reclean" \in tdone => recleaned = cleaned

\* A text that the first pass changed and left non-empty was cleaned twice.
RecleanedChangedText ==
    /\ "reclean" \in tdone
    /\ cleaned # <<>>
    /\ cleaned # text
    /\ Len(text) <= MaxLen

\* C6 as stated: the label is Positive for every nonzero classifier output and
\* Negative otherwise.
NonzeroIsPositive ==
    "predict" \in tdone =>
        /\ label \in {"Positive", "Negative"}
        /\ (label = "Positive" <=> prediction # 0)

\* C6 as amended: the label is Positive exactly when the classifier output
\* equals 1, Negative for every other output, and never anything else.
OneIsPositive ==
    "predict" \in tdone =>
        /\ label \in {"Positive", "Negative"}
        /\ (label = "Positive" <=> prediction = 1)

\* An output that is neither 0 nor 1 was labelled Negative.
OtherOutputLabelledNegative ==
    /\ "predict" \in tdone
    /\ prediction \notin {0, 1}
    /\ label = "Negative"

(***************************************************************************)
(* SpecConc: NumProcs calls of register_user running concurrently, each on *)
(* its own connection to users.db, interleaved statement by statement.     *)
(* main has called init_db before any of them, so the table exists.        *)
(*                                                                         *)
(* SQLite lets one connection write at a time: an INSERT takes the         *)
(* database's write lock, which the connection keeps until it commits or   *)
(* rolls back (closing an uncommitted connection rolls it back).  A second *)
(* writer's INSERT waits in the busy handler meanwhile.  The wait is       *)
(* modelled as the guard of Execute; its five-second limit                 *)
(* (sqlite3.connect's default timeout) is outside this untimed model.      *)
(***************************************************************************)
Procs == 1..NumProcs

InitConc ==
    /\ TextIdle
    /\ DeployIdle
    /\ FetchIdle
    /\ AppIdle
    /\ db = EmptyTable
    /\ lock = 0
    /\ pc = [p \in Procs |-> "call"]
    /\ args = [p \in Procs |-> Row("", "", "")]
    /\ pending = [p \in Procs |-> {}]
    /\ result = [p \in Procs |-> "none"]

\* Mutant: no write lock taken by the INSERT.
MayWrite_unlocked(p) == TRUE

\* The INSERT proceeds once no other connection holds the write lock.
MayWrite(p) == lock \in {0, p}

\* register_user(username, name, password) is called; sqlite3.connect.
Connect(p) ==
    /\ pc[p] = "call"
    /\ \E u \in Usernames \ {""}, n \in Names, pw \in Passwords \ {"PW1"} :
          args' = [args EXCEPT ![p] = Row(u, n, pw)]
    /\ pc' = [pc EXCEPT ![p] = "execute"]
    /\ UNCHANGED <<db, lock, pending, result, textVars, deployVars, fcall, appVars>>

\* c.execute("INSERT ..."): the row joins the connection's transaction, or the
\* statement raises IntegrityError, caught by the except clause.
Execute(p) ==
    /\ pc[p] = "execute"
    /\ MayWrite(p)
    /\ lock' = p
    /\ IF PrimaryKeyViolated(db.rows \cup pending[p], args[p].username)
       THEN /\ result' = [result EXCEPT ![p] = "exists"]
            /\ pc' = [pc EXCEPT ![p] = "close"]
            /\ UNCHANGED pending
       ELSE /\ pending' = [pending EXCEPT ![p] = @ \cup {args[p]}]
            /\ pc' = [pc EXCEPT ![p] = "commit"]
            /\ UNCHANGED result
    /\ UNCHANGED <<db, args, textVars, deployVars, fcall, appVars>>

\* conn.commit(); return True, ...
Commit(p) ==
    /\ pc[p] = "commit"
    /\ db' = [db EXCEPT !.rows = @ \cup pending[p]]
    /\ pending' = [pending EXCEPT ![p] = {}]
    /\ lock' = IF lock = p THEN 0 ELSE lock
    /\ result' = [result EXCEPT ![p] = "registered"]
    /\ pc' = [pc EXCEPT ![p] = "close"]
    /\ UNCHANGED <<args, textVars, deployVars, fcall, appVars>>

\* finally: conn.close(), which rolls back what was not committed.
Close(p) ==
    /\ pc[p] = "close"
    /\ pending' = [pending EXCEPT ![p] = {}]
    /\ lock' = IF lock = p THEN 0 ELSE lock
    /\ pc' = [pc EXCEPT ![p] = "done"]
    /\ UNCHANGED <<db, args, result, textVars, deployVars, fcall, appVars>>

NextConc == \E p \in Procs : Connect(p) \/ Execute(p) \/ Commit(p) \/ Close(p)

SpecConc == InitConc /\ [][NextConc]_vars

\* The calls that registered username u.
Winners(u) == {p \in Procs : args[p].username = u /\ result[p] = "registered"}

Callers(u) == {p \in Procs : pc[p] # "call" /\ args[p].username = u}

Submitted == Row(w.username, w.name, w.password)

\* C1: login_user(u, p) returns a record if and only if an earlier
\* register_user(u, _, p) returned True with exactly that username and that
\* password (equality of strings on both); the record is that registration's,
\* and an unknown username or a wrong password gives None.
LoginIffRegistered ==
    out.clicked = "Login" =>
        /\ out.user # <<>> <=>
               \E r \in succeeded : r.username = w.username /\ r.password = w.password
        /\ out.user # <<>> =>
               /\ out.user[1] \in succeeded
               /\ out.user[1].username = w.username
               /\ out.user[1].password = w.password

\* A login succeeded while another username, differing only in case, is
\* registered with another password.
LoggedInBesideNamesake ==
    /\ out.clicked = "Login"
    /\ out.user # <<>>
    /\ w.username = "alice"
    /\ \E r \in db.rows : r.username = "Alice" /\ r.password # w.password

\* C2: register_user on a username that is present returns False and leaves
\* the table as it was: for every username the table holds exactly the row of
\* the first call that returned True for it.
FirstRegistrationKept ==
    /\ \A u \in Usernames : {r \in db.rows : r.username = u} = Range(first[u])
    /\ out.clicked = "Register" =>
          /\ out.reg \in {"registered", "exists"}
          /\ out.reg = "exists" <=> out.dup
          /\ out.reg = "registered" => first[w.username] = <<Submitted>>
          /\ out.msgs = {out.reg}

\* A second registration of a username, with other fields, was refused.
DuplicateRefused ==
    /\ out.clicked = "Register"
    /\ out.reg = "exists"
    /\ first[w.username] # <<>>
    /\ first[w.username][1].name # w.name
    /\ first[w.username][1].password # w.password

\* C9: init_db creates the users table when it is absent and otherwise leaves
\* it alone: after any run of main the table exists and every row registered
\* in an earlier run is still in it, unaltered.
RegisteredRowsPersist ==
    rendered # {} =>
        /\ db.exists
        /\ succeeded \subseteq db.rows

\* A run that registers nothing took place with two rows registered before.
LaterRunKeepsRows ==
    /\ out.clicked = "Login"
    /\ Cardinality(succeeded) >= 2
    /\ succeeded \subseteq db.rows

(***************************************************************************)
(* Claims about the controller (checked under SpecApp).                    *)
(***************************************************************************)
Gated == {"load_model", "get_tweets", "predict_sentiment"}

\* C10: no run of main invokes load_model, get_tweets or predict_sentiment
\* unless it is a run in the Login state whose Login button was clicked and
\* whose login_user returned a row for the submitted credentials; a Register
\* run and a Login run with None show only their message.
AnalysisGatedByLogin ==
    /\ Range(out.calls) \cap Gated # {} =>
          /\ w.choice = "Login"
          /\ out.clicked = "Login"
          /\ out.user # <<>>
          /\ out.user[1] \in db.rows
          /\ Matches(out.user[1], w.username, w.password)
    /\ w.choice = "Register" =>
          /\ out.calls = <<>>
          /\ out.msgs \subseteq {"registered", "exists"}
    /\ (out.clicked = "Login" /\ out.user = <<>>) =>
          /\ out.calls = <<>>
          /\ out.msgs = {"invalid"}
          /\ rendered = LoginForm

\* A run loaded a model after a successful login.
ModelLoadedAfterLogin ==
    /\ "load_model" \in Range(out.calls)
    /\ out.user # <<>>
    /\ out.exc = "none"

\* C4: a successful login enters the analysis and the analysis can be carried
\* through: the run triggered by pressing Analyze (or Fetch and Analyze)
\* invokes predict_sentiment and renders the result.
AnalyzeClickPredicts ==
    /\ (out.clicked = "Login" /\ out.user # <<>> /\ out.exc = "none") =>
          {"model_choice", "option"} \subseteq rendered
    /\ (out.clicked = "Analyze" /\ out.exc = "none") =>
          /\ "predict_sentiment" \in Range(out.calls)
          /\ Len(out.results) = 1

(***************************************************************************)
(* Claims about the remote fetch (checked under SpecFetch).                *)
(***************************************************************************)
\* C5: whenever the scraper is unavailable or the remote call fails,
\* get_tweets returns an empty list and raises nothing.
FetchFailureGivesEmptyList ==
    (fcall.made /\ (~scraperAvailable \/ fcall.remote.kind # "tweets")) =>
        /\ fcall.ret.tweets = <<>>
        /\ fcall.ret.exc = "none"

====
